---- MODULE Spec2Model ----
(***************************************************************************)
(* A model of pdf_to_epub.py: the command-line entry point, the parser of  *)
(* the table-of-contents page and the segmentation of the content pages    *)
(* into chapters.                                                          *)
(*                                                                         *)
(* A Python str is a sequence of one-character strings; None is the empty  *)
(* tuple and a present integer n is <<n>>.  The content of PDF page p is   *)
(* its page-reference marker, the one-element sequence <<p>>, so that the  *)
(* content of a chapter is the sequence of the pages combined into it.     *)
(***************************************************************************)
EXTENDS Integers, Sequences, FiniteSets, TLC

\* Bounds of the model.
MaxPages == 5
MaxTocLines == 2
MaxParseLines == 2

None == <<>>
Some(n) == <<n>>

(***************************************************************************)
(* Characters and strings.                                                 *)
(***************************************************************************)
Digits == <<"0", "1", "2", "3", "4", "5", "6", "7", "8", "9">>

IsDigit(c) == \E i \in 1..10 : Digits[i] = c

DigitVal(c) == (CHOOSE i \in 1..10 : Digits[i] = c) - 1

IsSpace(c) == c \in {" ", "\t", "\n"}

UpperCase == <<"A", "B", "C", "D", "E", "I", "N", "O", "T", "U">>
LowerCase == <<"a", "b", "c", "d", "e", "i", "n", "o", "t", "u">>

\* Case folding of one character, as re.IGNORECASE compares letters.
Lower(c) ==
    IF \E i \in 1..Len(UpperCase) : UpperCase[i] = c
    THEN LowerCase[CHOOSE i \in 1..Len(UpperCase) : UpperCase[i] = c]
    ELSE c

LowerStr(s) == [i \in 1..Len(s) |-> Lower(s[i])]

\* s[from..to] as a sequence (empty when from > to).
Slice(s, from, to) == IF from > to THEN <<>> ELSE SubSeq(s, from, to)

StartsWith(s, p) == Len(s) >= Len(p) /\ SubSeq(s, 1, Len(p)) = p

\* sub occurs in s (Python's `sub in s`).
Contains(s, sub) ==
    \E i \in 0..(Len(s) - Len(sub)) : SubSeq(s, i + 1, i + Len(sub)) = sub

\* str.strip(): leading and trailing whitespace removed.
RECURSIVE LStrip(_)
LStrip(s) == IF s # <<>> /\ IsSpace(Head(s)) THEN LStrip(Tail(s)) ELSE s

RECURSIVE RStrip(_)
RStrip(s) ==
    IF s # <<>> /\ IsSpace(s[Len(s)]) THEN RStrip(SubSeq(s, 1, Len(s) - 1)) ELSE s

Strip(s) == RStrip(LStrip(s))

\* str.replace(old, new): every non-overlapping occurrence, left to right.
RECURSIVE Replace(_, _, _)
Replace(s, old, new) ==
    IF Len(s) < Len(old) \/ old = <<>> THEN s
    ELSE IF StartsWith(s, old)
         THEN new \o Replace(SubSeq(s, Len(old) + 1, Len(s)), old, new)
         ELSE <<Head(s)>> \o Replace(Tail(s), old, new)

\* The decimal value of a run of digits.
RECURSIVE DigitsValue(_)
DigitsValue(ds) ==
    IF ds = <<>> THEN 0
    ELSE 10 * DigitsValue(SubSeq(ds, 1, Len(ds) - 1)) + DigitVal(ds[Len(ds)])

AllDigits(s) == \A i \in 1..Len(s) : IsDigit(s[i])

\* int(s) succeeds: optional surrounding whitespace, optional sign, digits.
IntBody(s) ==
    LET t == Strip(s)
    IN  IF t # <<>> /\ t[1] \in {"+", "-"} THEN Tail(t) ELSE t

IntParses(s) == IntBody(s) # <<>> /\ AllDigits(IntBody(s))

IntValue(s) ==
    LET t == Strip(s)
    IN  IF t # <<>> /\ t[1] = "-" THEN 0 - DigitsValue(IntBody(s))
        ELSE DigitsValue(IntBody(s))

\* The decimal numeral of a natural number (str(n)).
RECURSIVE IntToStr(_)
IntToStr(n) ==
    IF n < 10 THEN <<Digits[n + 1]>>
    ELSE IntToStr(n \div 10) \o <<Digits[(n % 10) + 1]>>

\* str.splitlines() for "\n" line boundaries: no trailing empty line.
RECURSIVE SplitLines(_, _)
SplitLines(text, cur) ==
    IF text = <<>> THEN (IF cur = <<>> THEN <<>> ELSE <<cur>>)
    ELSE IF Head(text) = "\n" THEN <<cur>> \o SplitLines(Tail(text), <<>>)
         ELSE SplitLines(Tail(text), Append(cur, Head(text)))

splitlines(text) == SplitLines(text, <<>>)

\* "\n".join(lines): the text of a page whose lines are `lines`.
RECURSIVE JoinLines(_)
JoinLines(lines) ==
    IF lines = <<>> THEN <<>>
    ELSE IF Len(lines) = 1 THEN lines[1]
         ELSE lines[1] \o <<"\n">> \o JoinLines(Tail(lines))

(***************************************************************************)
(* parse_toc_text: the regular expression                                  *)
(*   ^(?!.*Contenido)(.*?)(?:\s*\.+\s*|\s+-\s+)(\d+)$   with re.IGNORECASE *)
(* matched against each stripped, non-empty line.                          *)
(***************************************************************************)
Contenido == <<"C", "o", "n", "t", "e", "n", "i", "d", "o">>

\* The negative lookahead (?!.*Contenido) rejects the line.
LookaheadRejects(line) == Contains(LowerStr(line), LowerStr(Contenido))

\* s is matched in full by \s*\.+\s*
DotSeparator(s) ==
    LET t == Strip(s)
    IN  t # <<>> /\ \A i \in 1..Len(t) : t[i] = "."

\* s is matched in full by \s+-\s+
HyphenSeparator(s) ==
    \E i \in 2..(Len(s) - 1) :
        /\ s[i] = "-"
        /\ \A j \in 1..Len(s) : j # i => IsSpace(s[j])

\* The splits of rest into (?:\s*\.+\s*|\s+-\s+) followed by (\d+)$ :
\* the lengths d of the digit run that closes the line.
PageSplits(rest) ==
    {d \in 1..Len(rest) :
        /\ AllDigits(SubSeq(rest, Len(rest) - d + 1, Len(rest)))
        /\ LET sep == Slice(rest, 1, Len(rest) - d)
           IN  DotSeparator(sep) \/ HyphenSeparator(sep)}

\* The lengths k of group 1 for which the rest of the line matches.
TitleLengths(line) ==
    {k \in 0..Len(line) : PageSplits(Slice(line, k + 1, Len(line))) # {}}

\* A greedy group 1, (.*), would take the longest of the lengths.
GreedyTitleLength(lengths) ==
    CHOOSE k \in lengths : \A j \in lengths : k >= j

\* (.*?) is lazy: of the lengths that match, group 1 takes the shortest.
TitleLength(lengths) ==
    CHOOSE k \in lengths : \A j \in lengths : k <= j

\* The one element of a one-element set: {e(v) : v \in {x}} computes x once.
TheOnly(S) == CHOOSE e \in S : TRUE

\* pattern.match(line): None, or the match with its group(1) and group(2).
Match(line) ==
    IF LookaheadRejects(line) THEN None
    ELSE TheOnly({
           IF lengths = {} THEN None
           ELSE Some(TheOnly(UNION {
                  {[group1 |-> Slice(line, 1, k),
                    group2 |-> SubSeq(line, Len(line) - d + 1, Len(line))] :
                      d \in PageSplits(Slice(line, k + 1, Len(line)))} :
                  k \in {TitleLength(lengths)}})) :
           lengths \in {TitleLengths(line)}})

\* One iteration of the loop over the lines, lines 44-54: the entries the
\* line appends.
LineEntries(raw) ==
    TheOnly({IF line = <<>> THEN <<>>
             ELSE TheOnly({IF match = None THEN <<>>
                           ELSE LET title == Strip(match[1].group1)
                                    digits == Strip(match[1].group2)
                                IN  IF IntParses(digits)
                                    THEN <<<<title, IntValue(digits)>>>>
                                    ELSE <<>> :
                           match \in {Match(line)}}) :
             line \in {Strip(raw)}})

\* The loop over the lines, lines 43-54.
RECURSIVE ParseLines(_)
ParseLines(lines) ==
    IF lines = <<>> THEN <<>>
    ELSE LineEntries(Head(lines)) \o ParseLines(Tail(lines))

parse_toc_text(text) == ParseLines(splitlines(text))

(***************************************************************************)
(* Helpers of pdf_to_epub.                                                 *)
(***************************************************************************)
\* list(range(a, b + 1))
RangeSeq(a, b) == [i \in 1..(IF b >= a THEN b - a + 1 ELSE 0) |-> a + i - 1]

SeqToSet(s) == {s[i] : i \in 1..Len(s)}

\* min(list) and max(list) of a non-empty list.
Min(s) == CHOOSE x \in SeqToSet(s) : \A y \in SeqToSet(s) : x <= y
Max(s) == CHOOSE x \in SeqToSet(s) : \A y \in SeqToSet(s) : x >= y

\* sorted(toc_entries, key=lambda x: x[1]): a stable sort on the page.
RECURSIVE InsertByPage(_, _)
InsertByPage(sorted, e) ==
    IF sorted = <<>> THEN <<e>>
    ELSE IF Head(sorted)[2] <= e[2]
         THEN <<Head(sorted)>> \o InsertByPage(Tail(sorted), e)
         ELSE <<e>> \o sorted

RECURSIVE SortedByPage(_)
SortedByPage(es) ==
    IF es = <<>> THEN <<>>
    ELSE InsertByPage(SortedByPage(SubSeq(es, 1, Len(es) - 1)), es[Len(es)])

\* combine_pages(page_contents, start, end)
RECURSIVE combine_pages(_, _, _)
combine_pages(contents, start, end) ==
    IF start > end THEN <<>>
    ELSE (IF start \in DOMAIN contents THEN contents[start] ELSE <<>>)
         \o combine_pages(contents, start + 1, end)

\* create_chapter(title, content, filename): the EpubHtml item; h1 tells
\* whether the <h1> heading is written.
create_chapter(title, content, filename) ==
    [title |-> title, content |-> content, file_name |-> filename,
     h1 |-> Strip(title) # <<>>]

Prefacio == <<"P", "r", "e", "f", "a", "c", "i", "o">>
ChapterPrefix == <<"c", "h", "a", "p", "t", "e", "r", "_">>
XhtmlSuffix == <<".", "x", "h", "t", "m", "l">>
PrefacioFile ==
    ChapterPrefix \o <<"p", "r", "e", "f", "a", "c", "i", "o">> \o XhtmlSuffix

\* f"chapter_{idx+1}.xhtml" for the 0-based idx of enumerate().
ChapterFile(idx) == ChapterPrefix \o IntToStr(idx + 1) \o XhtmlSuffix

\* end_page that runs up to the next entry's starting page itself.
EndPageOverlapping(entries, idx, pages) ==
    IF idx < Len(entries) - 1 THEN entries[idx + 2][2] ELSE Max(pages)

\* end_page of the entry at 0-based idx, lines 164-168.
EndPage(entries, idx, pages) ==
    IF idx < Len(entries) - 1 THEN entries[idx + 2][2] - 1 ELSE Max(pages)

(***************************************************************************)
(* The inputs: the command line and the PDF document.                      *)
(***************************************************************************)
Prog == <<"c", "o", "n", "v", "e", "r", "t">>
InPdf == <<"i", "n", ".", "p", "d", "f">>
OutEpub == <<"o", "u", "t", ".", "e", "p", "u", "b">>
DotPdf == <<".", "p", "d", "f">>
DotEpub == <<".", "e", "p", "u", "b">>
NavItem == <<"n", "a", "v">>

\* A line of a table of contents with a dotted leader.
TocLine(title, page) == title \o <<" ", ".", ".", " ">> \o IntToStr(page)

SeqsUpTo(S, n) == UNION {[1..k -> S] : k \in 0..n}

ArgvPool ==
    {<<Prog>>, <<Prog, InPdf>>, <<Prog, InPdf, OutEpub>>,
     <<Prog, InPdf, OutEpub, IntToStr(2)>>}
    \cup {<<Prog, InPdf, IntToStr(n)>> : n \in 1..MaxPages}

TocLinePool ==
    {TocLine(<<"A">>, p) : p \in 1..(MaxPages + 1)}
    \cup {TocLine(<<"B">>, p) : p \in 3..4}
    \cup {<<"x">>}

VARIABLES
    argv,                 \* sys.argv
    doc_page_count,       \* the PDF: its number of pages
    doc_lines,            \* the PDF: the lines of the text of its pages
    doc_text,             \* the PDF: the text get_text("text") returns
    pc,                   \* the position of the program
    stdout,               \* what was printed
    exit_status,          \* None while running, then the exit status
    error,                \* the exception that ended the program, or ""
    raised_at,            \* the source line that raised it, or 0
    pdf_file, epub_file,  \* the arguments of pdf_to_epub
    toc_page,
    opened,               \* the paths fitz.open was called on
    written,              \* the paths epub.write_epub was called on
    total_pages, content_page_numbers, page_contents,
    content_pages, toc_entries,
    chapters, idx,
    book_toc, spine

vars ==
    <<argv, doc_page_count, doc_lines, doc_text, pc, stdout, exit_status,
      error, raised_at, pdf_file, epub_file, toc_page, opened, written,
      total_pages, content_page_numbers, page_contents, content_pages,
      toc_entries, chapters, idx, book_toc, spine>>

docVars == <<argv, doc_page_count, doc_lines, doc_text>>
mainVars == <<pdf_file, epub_file, toc_page>>
ioVars == <<opened, written>>
pageVars == <<total_pages, content_page_numbers, page_contents>>
bookVars == <<book_toc, spine>>

InitWith(argvs, pageCounts, pageLines) ==
    /\ argv \in argvs
    /\ doc_page_count \in pageCounts
    /\ doc_lines \in pageLines
    /\ doc_text = JoinLines(doc_lines)
    /\ pc = "main"
    /\ stdout = <<>>
    /\ exit_status = None
    /\ error = ""
    /\ raised_at = 0
    /\ pdf_file = <<>>
    /\ epub_file = <<>>
    /\ toc_page = None
    /\ opened = {}
    /\ written = {}
    /\ total_pages = 0
    /\ content_page_numbers = <<>>
    /\ page_contents = <<>>
    /\ content_pages = <<>>
    /\ toc_entries = <<>>
    /\ chapters = <<>>
    /\ idx = 0
    /\ book_toc = <<>>
    /\ spine = <<>>

Init == InitWith(ArgvPool, 1..MaxPages, SeqsUpTo(TocLinePool, MaxTocLines))

\* An uncaught exception: the traceback is printed and the status is 1.
Raise(exc, line) ==
    /\ error' = exc
    /\ raised_at' = line
    /\ exit_status' = Some(1)
    /\ pc' = "exited"

\* The __main__ block up to the call of pdf_to_epub, lines 204-213.
Main ==
    /\ pc = "main"
    /\ IF Len(argv) < 2
       THEN /\ stdout' = Append(stdout, "usage")
            /\ exit_status' = Some(1)
            /\ pc' = "exited"
            /\ UNCHANGED <<error, raised_at, mainVars>>
       ELSE IF Len(argv) = 3 /\ ~IntParses(argv[3])
            THEN /\ Raise("ValueError", 211)
                 /\ UNCHANGED <<stdout, mainVars>>
            ELSE /\ pdf_file' = argv[2]
                 /\ epub_file' = Replace(argv[2], DotPdf, DotEpub)
                 /\ toc_page' = IF Len(argv) = 3 THEN Some(IntValue(argv[3]))
                                ELSE None
                 /\ pc' = "open"
                 /\ UNCHANGED <<stdout, exit_status, error, raised_at>>
    /\ UNCHANGED <<docVars, ioVars, pageVars, content_pages, toc_entries,
                   chapters, idx, bookVars>>

\* pdf_to_epub, lines 78-134: the document is opened and every page after
\* the cover is read into page_contents.
ReadPages ==
    /\ pc = "open"
    /\ opened' = opened \cup {pdf_file}
    /\ total_pages' = doc_page_count
    /\ content_page_numbers' = RangeSeq(2, doc_page_count)
    /\ page_contents' = [p \in 2..doc_page_count |-> <<p>>]
    /\ pc' = "select"
    /\ UNCHANGED <<docVars, stdout, exit_status, error, raised_at, mainVars,
                   written, content_pages, toc_entries, chapters, idx,
                   bookVars>>

\* pdf_to_epub, lines 136-147: the content pages and the TOC entries.
SelectPages ==
    /\ pc = "select"
    /\ content_pages' =
          IF toc_page # None
          THEN SelectSeq(content_page_numbers, LAMBDA p : p # toc_page[1])
          ELSE content_page_numbers
    /\ toc_entries' =
          IF toc_page # None /\ toc_page[1] \in SeqToSet(content_page_numbers)
          THEN parse_toc_text(doc_text)
          ELSE <<>>
    /\ pc' = "segment"
    /\ UNCHANGED <<docVars, stdout, exit_status, error, raised_at, mainVars,
                   ioVars, pageVars, chapters, idx, bookVars>>

\* pdf_to_epub, lines 149-157 and 172-176: the entries are sorted and the
\* preface is made, or the single fallback chapter is made.
Segment ==
    /\ pc = "segment"
    /\ IF toc_entries # <<>>
       THEN IF content_pages = <<>>
            THEN /\ Raise("ValueError", 154)
                 /\ UNCHANGED <<toc_entries, chapters>>
            ELSE LET sorted == SortedByPage(toc_entries)
                     first_entry_page == sorted[1][2]
                 IN  /\ toc_entries' = sorted
                     /\ chapters' =
                          IF first_entry_page > Min(content_pages)
                          THEN <<create_chapter(Prefacio,
                                    combine_pages(page_contents,
                                                  Min(content_pages),
                                                  first_entry_page - 1),
                                    PrefacioFile)>>
                          ELSE <<>>
                     /\ pc' = "entries"
                     /\ UNCHANGED <<exit_status, error, raised_at>>
       ELSE IF content_pages = <<>>
            THEN /\ Raise("ValueError", 174)
                 /\ UNCHANGED <<toc_entries, chapters>>
            ELSE /\ chapters' =
                        <<create_chapter(Contenido,
                             combine_pages(page_contents, Min(content_pages),
                                           Max(content_pages)),
                             ChapterFile(0))>>
                 /\ pc' = "assemble"
                 /\ UNCHANGED <<toc_entries, exit_status, error, raised_at>>
    /\ idx' = 0
    /\ UNCHANGED <<docVars, stdout, mainVars, ioVars, pageVars, content_pages,
                   bookVars>>

\* pdf_to_epub, lines 159-171: one iteration of the loop over the entries.
NextEntry ==
    /\ pc = "entries"
    /\ idx < Len(toc_entries)
    /\ LET title == toc_entries[idx + 1][1]
           start_page == toc_entries[idx + 1][2]
           end_page == EndPage(toc_entries, idx, content_pages)
       IN  chapters' =
              IF toc_page # None /\ start_page = toc_page[1]
              THEN chapters
              ELSE Append(chapters,
                          create_chapter(title,
                              combine_pages(page_contents, start_page, end_page),
                              ChapterFile(idx)))
    /\ idx' = idx + 1
    /\ pc' = IF idx + 1 < Len(toc_entries) THEN "entries" ELSE "assemble"
    /\ UNCHANGED <<docVars, stdout, exit_status, error, raised_at, mainVars,
                   ioVars, pageVars, content_pages, toc_entries, bookVars>>

\* pdf_to_epub, lines 178-202: navigation, spine and the written file.
Assemble ==
    /\ pc = "assemble"
    /\ book_toc' = [i \in 1..Len(chapters) |->
                       <<chapters[i].file_name, chapters[i].title>>]
    /\ spine' = <<NavItem>> \o [i \in 1..Len(chapters) |-> chapters[i].file_name]
    /\ written' = written \cup {epub_file}
    /\ pc' = "written"
    /\ UNCHANGED <<docVars, stdout, exit_status, error, raised_at, mainVars,
                   opened, pageVars, content_pages, toc_entries, chapters, idx>>

\* The __main__ block after pdf_to_epub returned, line 216.
Finish ==
    /\ pc = "written"
    /\ stdout' = Append(stdout, "created")
    /\ exit_status' = Some(0)
    /\ pc' = "exited"
    /\ UNCHANGED <<docVars, error, raised_at, mainVars, ioVars, pageVars,
                   content_pages, toc_entries, chapters, idx, bookVars>>

Next ==
    \/ Main
    \/ ReadPages
    \/ SelectPages
    \/ Segment
    \/ NextEntry
    \/ Assemble
    \/ Finish

Spec == Init /\ [][Next]_vars

(***************************************************************************)
(* The specification for parse_toc_text: the text of the table-of-contents *)
(* page is drawn from lines that exercise the regular expression; the      *)
(* program is run on a three-page PDF whose page 2 is that page.           *)
(***************************************************************************)
LineIntroduccion ==
    <<"I", "n", "t", "r", "o", "d", "u", "c", "c", "i", "o", "n", " ", ".",
      ".", ".", ".", " ", "3">>
LineCapitulo ==
    <<"C", "a", "p", "i", "t", "u", "l", "o", " ", "U", "n", "o", " ", "-",
      " ", "1", "0">>
LineContenido ==
    <<"C", "o", "n", "t", "e", "n", "i", "d", "o", " ", ".", ".", ".", ".",
      ".", " ", "1">>
LineContenidoCase ==
    <<"c", "O", "N", "T", "E", "N", "I", "D", "O", " ", "B", ".", "2">>
LineNoSpace == <<"A", ".", "2">>
LineTwoRuns == <<"A", " ", ".", " ", ".", " ", "0", "3">>
LineTwoHyphens == <<"A", " ", "-", " ", "-", " ", "2">>
LineHyphenNoSpace == <<"A", " ", "-", "2">>
LineNoSeparator == <<"A", " ", "2">>
LineNoTitle == <<".", ".", " ", "2">>
LinePadded == <<" ", " ", "B", " ", ".", ".", " ", " ", "3", " ", " ">>
LineEmpty == <<>>
LineBlank == <<" ", " ", " ">>
LineNotAnchored == <<"B", " ", ".", ".", " ", "3", "x">>
LineOnlyDigits == <<"3">>
LineTabs == <<"A", "\t", "-", "\t", "2">>
LineLongRun == <<"A", ".", ".", " ", "3">>

ParseLinePool ==
    {LineIntroduccion, LineCapitulo, LineContenido,
     LineContenidoCase, LineNoSpace, LineTwoRuns,
     LineTwoHyphens, LineHyphenNoSpace, LineNoSeparator,
     LineNoTitle, LinePadded, LineEmpty,
     LineBlank, LineNotAnchored, LineOnlyDigits,
     LineTabs, LineLongRun}

\* The page of the example: three lines, of which the last is the heading.
ExampleToc == <<LineIntroduccion, LineCapitulo, LineContenido>>

InitParse ==
    InitWith({<<Prog, InPdf, IntToStr(2)>>}, {3},
             SeqsUpTo(ParseLinePool, MaxParseLines) \cup {ExampleToc})

SpecParse == InitParse /\ [][Next]_vars

(***************************************************************************)
(* Notions the statements below share.                                     *)
(***************************************************************************)
\* The segmentation returned its chapters.
SegmentDone ==
    \/ pc \in {"assemble", "written"}
    \/ (pc = "exited" /\ error = "" /\ written # {})

\* The segmentation raised.
SegmentRaised == pc = "exited" /\ raised_at \in {154, 174}

\* A TOC page is designated and is one of the pages after the cover.
TocDesignated == toc_page # None /\ toc_page[1] \in 2..doc_page_count

\* The eligible content pages: every page after the cover but the TOC page.
Eligible == {p \in 2..doc_page_count : toc_page = None \/ p # toc_page[1]}

MinEligible == CHOOSE p \in Eligible : \A q \in Eligible : p <= q
MaxEligible == CHOOSE p \in Eligible : \A q \in Eligible : p >= q

\* The chapters whose content holds the content of page p.
ChaptersWith(p) ==
    {i \in 1..Len(chapters) : p \in SeqToSet(chapters[i].content)}

\* The pages of the document from a to b, in ascending order.
PagesBetween(a, b) ==
    RangeSeq(IF a > 2 THEN a ELSE 2,
             IF b < doc_page_count THEN b ELSE doc_page_count)

\* The positions of the sorted entries that do not start at the TOC page.
KeptEntries(es) ==
    SelectSeq(RangeSeq(1, Len(es)),
              LAMBDA i : toc_page = None \/ es[i][2] # toc_page[1])

Occurrences(seq, e) == Cardinality({i \in 1..Len(seq) : seq[i] = e})

\* The chapters made from the entries: every chapter but the preface.
DerivedChapters ==
    SelectSeq(chapters, LAMBDA c : c.file_name # PrefacioFile)

(***************************************************************************)
(* C1.  Every eligible content page has its content in exactly one chapter *)
(* and the pages of the last chapter reach the last content page.          *)
(***************************************************************************)
C1_PagesPartitioned ==
    SegmentDone =>
        /\ \A p \in Eligible : Cardinality(ChaptersWith(p)) = 1
        /\ chapters # <<>>
        /\ LET last == chapters[Len(chapters)].content
           IN  last # <<>> => last[Len(last)] >= MaxEligible

(***************************************************************************)
(* C2.  With a TOC page designated, that page is not a content page and no *)
(* chapter holds its content.                                              *)
(***************************************************************************)
C2_TocPageExcluded ==
    (SegmentDone /\ TocDesignated) =>
        /\ toc_page[1] \notin SeqToSet(content_pages)
        /\ ChaptersWith(toc_page[1]) = {}

(***************************************************************************)
(* C3.  With no TOC page given, or a TOC page without a matching line, the *)
(* segmentation makes exactly one chapter, titled "Contenido", of the      *)
(* pages from the lowest to the highest eligible page.                     *)
(***************************************************************************)
C3_SingleFallbackChapter ==
    ((SegmentDone \/ SegmentRaised)
        /\ (toc_page = None
            \/ (TocDesignated /\ parse_toc_text(doc_text) = <<>>))) =>
        /\ error = ""
        /\ Len(chapters) = 1
        /\ chapters[1].title = Contenido
        /\ chapters[1].content =
              IF Eligible = {} THEN <<>>
              ELSE PagesBetween(MinEligible, MaxEligible)

C5_SequentialFilenames ==
    (SegmentDone /\ toc_entries # <<>>) =>
        /\ \A n \in 1..Len(DerivedChapters) :
              DerivedChapters[n].file_name = ChapterFile(n - 1)
        /\ (MinEligible < toc_entries[1][2]) =>
              chapters[1].file_name = PrefacioFile

(***************************************************************************)
(* The entries a page of lines is to give, stated on the lines themselves. *)
(***************************************************************************)
\* The line without the whitespace around it.
Trimmed(l) ==
    LET inked == {i \in 1..Len(l) : ~IsSpace(l[i])}
    IN  IF inked = {} THEN <<>>
        ELSE SubSeq(l, CHOOSE i \in inked : \A j \in inked : i <= j,
                       CHOOSE i \in inked : \A j \in inked : i >= j)

\* The word occurs in the line, whatever the case of the letters.
HasWord(l, word) ==
    \E at \in 1..(Len(l) - Len(word) + 1) :
        \A k \in 1..Len(word) : Lower(l[at + k - 1]) = Lower(word[k])

\* A run of one or more periods with optional whitespace around it.
PeriodRun(sep) ==
    \E a \in 1..Len(sep) : \E b \in a..Len(sep) :
        /\ \A i \in a..b : sep[i] = "."
        /\ \A i \in 1..Len(sep) : (i < a \/ i > b) => IsSpace(sep[i])

\* Whitespace, a hyphen, whitespace.
SpacedHyphen(sep) ==
    \E a \in 2..(Len(sep) - 1) :
        /\ sep[a] = "-"
        /\ \A i \in 1..Len(sep) : i # a => IsSpace(sep[i])

\* The ways to read l as <title><separator><digits>: <<i, j>> ends the
\* title at i and the separator at j.
Readings(l) ==
    {ij \in (0..Len(l)) \X (1..Len(l)) :
        /\ ij[1] < ij[2] /\ ij[2] < Len(l)
        /\ \A k \in (ij[2] + 1)..Len(l) : IsDigit(l[k])
        /\ LET sep == SubSeq(l, ij[1] + 1, ij[2])
           IN  PeriodRun(sep) \/ SpacedHyphen(sep)}

\* The reading with the whole separator: the one whose title ends first.
WholeReading(l) ==
    CHOOSE ij \in Readings(l) : \A other \in Readings(l) : ij[1] <= other[1]

\* The number a run of digits denotes, read from the left.
RECURSIVE NumberOf(_, _)
NumberOf(ds, acc) ==
    IF ds = <<>> THEN acc ELSE NumberOf(Tail(ds), 10 * acc + DigitVal(Head(ds)))

\* The line contributes an entry.
IsTocLine(l) ==
    /\ Trimmed(l) # <<>>
    /\ ~HasWord(Trimmed(l), Contenido)
    /\ Readings(Trimmed(l)) # {}

EntryOf(l) ==
    LET t == Trimmed(l)
        ij == WholeReading(t)
    IN  <<Trimmed(Slice(t, 1, ij[1])), NumberOf(SubSeq(t, ij[2] + 1, Len(t)), 0)>>

RECURSIVE EntriesOf(_)
EntriesOf(lines) ==
    IF lines = <<>> THEN <<>>
    ELSE (IF IsTocLine(Head(lines)) THEN <<EntryOf(Head(lines))>> ELSE <<>>)
         \o EntriesOf(Tail(lines))

(***************************************************************************)
(* C6.  parse_toc_text returns, in line order, one (trimmed title, page)   *)
(* pair for each non-empty line without "Contenido" in any letter case     *)
(* that reads <title><separator><digits> to its end, and nothing for any   *)
(* other line; it raises nothing.                                          *)
(***************************************************************************)
C6_ParsedEntries ==
    (pc = "segment" /\ TocDesignated) =>
        /\ error = ""
        /\ toc_entries = EntriesOf(doc_lines)

\* The page of the example was parsed: two entries, the heading left out.
C6_Witness ==
    /\ pc = "segment" /\ TocDesignated
    /\ doc_lines = ExampleToc
    /\ Len(toc_entries) = 2
    /\ toc_entries[1] = <<SubSeq(LineIntroduccion, 1, 12), 3>>
    /\ toc_entries[2] = <<SubSeq(LineCapitulo, 1, 12), 10>>

(***************************************************************************)
(* C7.  Run as `convert input.pdf output.epub`, the program converts with  *)
(* no TOC page, into one fallback chapter, and writes the given output     *)
(* path; with a third argument, that argument is the TOC page.             *)
(***************************************************************************)
C7_OutputPathAndNoTocPage ==
    /\ (pc = "exited" /\ Len(argv) = 3) =>
          /\ error = ""
          /\ exit_status = Some(0)
          /\ toc_page = None
          /\ written = {argv[3]}
    /\ (pc = "exited" /\ Len(argv) = 4 /\ IntParses(argv[4])) =>
          toc_page = Some(IntValue(argv[4]))

(***************************************************************************)
(* C8.  With input.pdf or output.epub missing from the command line, the   *)
(* program prints the usage message and exits with a non-zero status, and  *)
(* opens no PDF and writes no EPUB.                                        *)
(***************************************************************************)
C8_UsageOnMissingArgument ==
    Len(argv) < 3 =>
        /\ opened = {}
        /\ written = {}
        /\ pc = "exited" =>
              /\ stdout = <<"usage">>
              /\ exit_status # None
              /\ exit_status[1] # 0

(***************************************************************************)
(* C9.  With an entry that starts at the TOC page, the segmentation makes  *)
(* no chapter from an entry that starts at the TOC page and exactly one    *)
(* chapter, with the entry's title, from every other entry.                *)
(***************************************************************************)
C9_TocPageEntrySkipped ==
    ((SegmentDone \/ SegmentRaised) /\ TocDesignated
        /\ \E i \in 1..Len(toc_entries) : toc_entries[i][2] = toc_page[1]) =>
        LET es == SortedByPage(toc_entries)
        IN  \A i \in 1..Len(es) :
               LET made == {j \in 1..Len(chapters) :
                               chapters[j].file_name = ChapterFile(i - 1)}
               IN  IF es[i][2] = toc_page[1]
                   THEN made = {}
                   ELSE /\ Cardinality(made) = 1
                        /\ \A j \in made : chapters[j].title = es[i][1]

(***************************************************************************)
(* C10.  On a PDF of two pages or more, pdf_to_epub raises nothing and     *)
(* makes at least one chapter, so that the spine holds a chapter.          *)
(***************************************************************************)
C10_AtLeastOneChapter ==
    (doc_page_count >= 2 /\ opened # {}) =>
        /\ error = ""
        /\ pc \in {"assemble", "written", "exited"} => Len(chapters) >= 1
        /\ pc \in {"written", "exited"} => Len(spine) >= 2

====
